---- MODULE Spec2Model ----
(***************************************************************************)
(* scaffold: the `new` command (cmd/scaffold main), the project generator  *)
(* (internal/generator) and the directory policy (internal/templates),     *)
(* over a filesystem rooted at the base directory.                         *)
(*                                                                         *)
(* Paths are sequences of path components relative to the base directory   *)
(* (the base directory itself is <<>>).  A project name is a sequence of   *)
(* one-character strings; NameStr turns it into the path component.        *)
(* Each process is one invocation: of the command (entry "cli") or of      *)
(* generator.New + Generate by another caller of the package (entry "api").*)
(***************************************************************************)
EXTENDS Naturals, Sequences, FiniteSets, TLC

(* ------------------------------ bounds --------------------------------- *)

\* Longest project name the inputs are drawn from.
MaxNameLen == 2

\* Environment failures (I/O errors, unresolvable templates) injected over a
\* whole behaviour.
MaxFaults == 1

Procs == {"p1", "p2"}

\* The characters names are made of: a letter and the characters a file
\* system reserves.
Alphabet == {"a", " ", "/", "\\", ":", "*", "?", "\"", "<", ">", "|"}

(* ------------------------ internal/templates --------------------------- *)

TypeCLI == "cli"

TypeLibrary == "library"

TypeService == "service"

\* Values a ProjectType (a string type) is drawn from: the three constants
\* and a value that is none of them.
ProjectTypes == {TypeCLI, TypeLibrary, TypeService, "daemon"}

\* Mutant: the default branch has lost a directory of the cli list.
DirectoryStructure_DefaultDiffers(projectType) ==
    CASE projectType = TypeLibrary ->
           <<"internal", "pkg", "cmd", "scripts", "test", "docs", "examples">>
      [] projectType = TypeCLI ->
           <<"cmd", "internal", "pkg", "api", "configs", "scripts", "build",
             "test", "docs", "examples">>
      [] projectType = TypeService ->
           <<"cmd", "internal", "pkg", "api", "web", "configs", "scripts",
             "build", "test", "docs", "examples">>
      [] OTHER ->
           <<"cmd", "internal", "pkg", "configs", "scripts", "build",
             "test", "docs", "examples">>

\* DirectoryStructure(projectType): the directories to create.
DirectoryStructure(projectType) ==
    CASE projectType = TypeLibrary ->
           <<"internal", "pkg", "cmd", "scripts", "test", "docs", "examples">>
      [] projectType = TypeCLI ->
           <<"cmd", "internal", "pkg", "api", "configs", "scripts", "build",
             "test", "docs", "examples">>
      [] projectType = TypeService ->
           <<"cmd", "internal", "pkg", "api", "web", "configs", "scripts",
             "build", "test", "docs", "examples">>
      [] OTHER ->
           <<"cmd", "internal", "pkg", "api", "configs", "scripts", "build",
             "test", "docs", "examples">>

(* --------------------------- project names ----------------------------- *)

\* Mutant: the cutset without its last character.
InvalidChars_NoPipe == <<" ", "/", "\\", ":", "*", "?", "\"", "<", ">">>

\* The cutset of strings.ContainsAny in ValidateProjectName, in the order of
\* the string literal.
InvalidChars == <<" ", "/", "\\", ":", "*", "?", "\"", "<", ">", "|">>

Range(s) == {s[i] : i \in 1..Len(s)}

Names == UNION {[1..n -> Alphabet] : n \in 0..MaxNameLen}

\* strings.ContainsAny(s, chars): some character of s is a character of chars.
ContainsAny(s, chars) ==
    \E i \in 1..Len(s) : \E j \in 1..Len(chars) : s[i] = chars[j]

\* "ok" for a nil error.
ValidateProjectName(name) ==
    IF name = <<>> THEN "name_empty"
    ELSE IF ContainsAny(name, InvalidChars) THEN "name_invalid_chars"
    ELSE "ok"

RECURSIVE NameStr(_)
NameStr(name) == IF name = <<>> THEN "" ELSE Head(name) \o NameStr(Tail(name))

ValidNames == {n \in Names : ValidateProjectName(n) = "ok"}

(* ----------------------------- filesystem ------------------------------ *)

\* An entry: a directory, a regular file (src: the embedded resource its
\* bytes come from, via: how they were produced), or a symbolic link whose
\* target does not exist.
DirEntry == [kind |-> "dir", src |-> "", via |-> ""]

FileEntry(src, via) == [kind |-> "file", src |-> src, via |-> via]

DanglingLink == [kind |-> "symlink", src |-> "", via |-> ""]

Exists(f, path) == path = <<>> \/ path \in DOMAIN f

Parent(path) == SubSeq(path, 1, Len(path) - 1)

\* os.Stat follows symbolic links: nil error iff the path resolves.
Stat(f, path) == Exists(f, path) /\ (path # <<>> => f[path].kind # "symlink")

\* os.Stat(path) succeeded and IsDir().
IsDir(f, path) == path = <<>> \/ (path \in DOMAIN f /\ f[path].kind = "dir")

\* os.Lstat(path) succeeded and IsDir(): the same, a link is not a directory.
LstatIsDir(f, path) == IsDir(f, path)

Put(f, path, entry) == (path :> entry) @@ f

\* os.MkdirAll(path, 0755).  failAt is the length of the path whose mkdir(2)
\* the environment fails (0: none).  The result is the error flag and the
\* filesystem left behind: parents made before the failure stay.
RECURSIVE MkdirAll(_, _, _)
MkdirAll(f, path, failAt) ==
    IF Stat(f, path)
    THEN [err |-> ~IsDir(f, path), fs |-> f]
    ELSE LET par == MkdirAll(f, Parent(path), failAt)
         IN IF par.err THEN par
            ELSE IF failAt = Len(path) \/ Exists(par.fs, path)
                 THEN [err |-> ~LstatIsDir(par.fs, path), fs |-> par.fs]
                 ELSE [err |-> FALSE, fs |-> Put(par.fs, path, DirEntry)]

\* Mutant: the open is exclusive (O_EXCL), an existing file is an error.
WriteFile_Exclusive(f, path, entry, fault) ==
    IF ~IsDir(f, Parent(path)) \/ Exists(f, path) \/ fault = "open"
    THEN [err |-> TRUE, fs |-> f]
    ELSE IF fault = "short"
    THEN [err |-> TRUE, fs |-> Put(f, path, FileEntry(entry.src, "truncated"))]
    ELSE [err |-> FALSE, fs |-> Put(f, path, entry)]

\* os.WriteFile(path, data, 0644): open with O_CREATE|O_TRUNC, write, close.
\* fault "open": the open fails; "short": the write fails after the open
\* truncated or created the file.
WriteFile(f, path, entry, fault) ==
    IF ~IsDir(f, Parent(path)) \/ (Exists(f, path) /\ f[path].kind # "file")
       \/ fault = "open"
    THEN [err |-> TRUE, fs |-> f]
    ELSE IF fault = "short"
    THEN [err |-> TRUE, fs |-> Put(f, path, FileEntry(entry.src, "truncated"))]
    ELSE [err |-> FALSE, fs |-> Put(f, path, entry)]

(* ------------------------------- state --------------------------------- *)

VARIABLES
    fs,           \* the entries under the base directory: path -> entry
    faults,       \* environment failures injected so far
    pc,           \* each invocation's position
    entry,        \* "cli": runNew; "api": New + Generate called directly
    projectName,  \* runNew's local variable projectName
    interactive,  \* the --interactive flag variable
    dryRun,       \* the --dry-run flag variable / Generator.dryRun
    cfg,          \* the ProjectConfig (ProjectName, Type)
    validated,    \* calls of ValidateProjectName made by the invocation
    result,       \* what the invocation returned: "none" while running
    out,          \* what the invocation printed
    it,           \* loop positions inside Generate
    created,      \* paths this invocation made, ensured by MkdirAll or wrote in full
    keep          \* createGitkeepFiles: directories tried, and those failed

vars == <<fs, faults, pc, entry, projectName, interactive, dryRun, cfg,
          validated, result, out, it, created, keep>>

runVars == <<entry, projectName, interactive, dryRun, cfg, validated>>

NoOut == [dirs |-> {}, files |-> {}, success |-> FALSE, hint |-> FALSE,
          cd |-> <<>>]

NoIt == [i |-> 1, pending |-> {}]

NoKeep == [tried |-> {}, failed |-> {}]

\* What the base directory may hold before any invocation: nothing, or at
\* the path of the project named "a" a directory, a regular file or a
\* dangling link.
InitialEntries == {DirEntry, FileEntry("", ""), DanglingLink}

ExistingName == <<"a">>

Init ==
    /\ fs \in {<<>>} \cup
              {(<<NameStr(ExistingName)>> :> e) : e \in InitialEntries}
    /\ faults = 0
    /\ pc = [p \in Procs |-> "idle"]
    /\ entry = [p \in Procs |-> "none"]
    /\ projectName = [p \in Procs |-> <<>>]
    /\ interactive = [p \in Procs |-> FALSE]
    /\ dryRun = [p \in Procs |-> FALSE]
    /\ cfg = [p \in Procs |-> [ProjectName |-> <<>>, Type |-> ""]]
    /\ validated = [p \in Procs |-> 0]
    /\ result = [p \in Procs |-> "none"]
    /\ out = [p \in Procs |-> NoOut]
    /\ it = [p \in Procs |-> NoIt]
    /\ created = [p \in Procs |-> {}]
    /\ keep = [p \in Procs |-> NoKeep]

\* The invocations of one behaviour run one after the other: "p2" is the
\* tool run again on the project a real run of "p1" has made without any
\* failure.
Earlier(self) == IF self = "p1" THEN {} ELSE {"p1"}

MayStart(self) ==
    /\ pc[self] = "idle"
    /\ \A q \in Earlier(self) :
         pc[q] = "exit" /\ result[q] = "ok" /\ ~dryRun[q] /\ faults = 0

\* The names an invocation is given, as argument or typed into the form.
InputNames(self) ==
    IF self = "p1" THEN Names ELSE {cfg["p1"].ProjectName}

\* A return with an error: main prints it and exits non-zero.
Fail(self, err) ==
    /\ result' = [result EXCEPT ![self] = err]
    /\ pc' = [pc EXCEPT ![self] = "exit"]

CanFault == faults < MaxFaults

(* ------------------------- cmd/scaffold: runNew ------------------------ *)

\* The form of config.PromptForMissingConfig offers these three types.
FormTypes == {TypeCLI, TypeLibrary, TypeService}

\* runNew up to the construction of the initial config.
RunNewArgs(self) ==
    /\ MayStart(self)
    /\ \E args \in {<<>>} \cup {<<n>> : n \in InputNames(self)},
          iflag \in BOOLEAN, tflag \in ProjectTypes :
         /\ entry' = [entry EXCEPT ![self] = "cli"]
         /\ IF Len(args) = 0
            THEN /\ interactive' = [interactive EXCEPT ![self] = TRUE]
                 /\ projectName' = [projectName EXCEPT ![self] = <<>>]
                 /\ cfg' = [cfg EXCEPT ![self] =
                              [ProjectName |-> <<>>, Type |-> tflag]]
                 /\ pc' = [pc EXCEPT ![self] = "prompt"]
                 /\ UNCHANGED <<validated, result>>
            ELSE /\ interactive' = [interactive EXCEPT ![self] = iflag]
                 /\ projectName' = [projectName EXCEPT ![self] = args[1]]
                 /\ validated' = [validated EXCEPT ![self] = @ + 1]
                 /\ IF ValidateProjectName(args[1]) # "ok"
                    THEN /\ Fail(self, ValidateProjectName(args[1]))
                         /\ UNCHANGED cfg
                    ELSE /\ cfg' = [cfg EXCEPT ![self] =
                                 [ProjectName |-> args[1], Type |-> tflag]]
                         /\ pc' = [pc EXCEPT ![self] =
                                 IF iflag THEN "prompt" ELSE "defaults"]
                         /\ UNCHANGED result
    /\ UNCHANGED <<fs, faults, dryRun, out, it, created, keep>>

\* Mutant: the name is not validated after the form.
ValidateAfterPrompt_Skipped(self, name) ==
    /\ pc' = [pc EXCEPT ![self] = "getwd"]
    /\ UNCHANGED <<result, validated>>

\* The validation of the name after the interactive input.
ValidateAfterPrompt(self, name) ==
    /\ validated' = [validated EXCEPT ![self] = @ + 1]
    /\ IF ValidateProjectName(name) # "ok"
       THEN Fail(self, ValidateProjectName(name))
       ELSE /\ pc' = [pc EXCEPT ![self] = "getwd"]
            /\ UNCHANGED result

\* The interactive branch: PromptForMissingConfig, then the validation of
\* the name.  The form asks for the name only when the config has none and
\* accepts no empty name; it may be cancelled.
RunNewPrompt(self) ==
    /\ pc[self] = "prompt"
    /\ \/ /\ Fail(self, "form_cancelled")
          /\ UNCHANGED <<cfg, validated>>
       \/ \E typed \in InputNames(self) \ {<<>>}, chosen \in FormTypes :
            LET name == IF cfg[self].ProjectName = <<>> THEN typed
                        ELSE cfg[self].ProjectName
            IN /\ cfg' = [cfg EXCEPT ![self] =
                            [ProjectName |-> name, Type |-> chosen]]
               /\ ValidateAfterPrompt(self, name)
    /\ UNCHANGED <<fs, faults, entry, projectName, interactive, dryRun, out,
                   it, created, keep>>

\* The non-interactive branch: the project type is checked.
RunNewDefaults(self) ==
    /\ pc[self] = "defaults"
    /\ IF cfg[self].Type \notin {TypeCLI, TypeLibrary, TypeService}
       THEN Fail(self, "invalid_type")
       ELSE /\ pc' = [pc EXCEPT ![self] = "getwd"]
            /\ UNCHANGED result
    /\ UNCHANGED <<fs, faults, runVars, out, it, created, keep>>

\* os.Getwd, then generator.New(cfg, cwd, dryRun) and the call of Generate.
RunNewGenerate(self) ==
    /\ pc[self] = "getwd"
    /\ \/ /\ CanFault
          /\ faults' = faults + 1
          /\ Fail(self, "getwd_failed")
          /\ UNCHANGED dryRun
       \/ \E dflag \in BOOLEAN :
            /\ dryRun' = [dryRun EXCEPT ![self] = dflag]
            /\ pc' = [pc EXCEPT ![self] = "stat"]
            /\ UNCHANGED <<faults, result>>
    /\ UNCHANGED <<fs, entry, projectName, interactive, cfg, validated, out,
                   it, created, keep>>

\* Generate has returned to runNew: the error is returned, or the next
\* steps are printed unless this was a dry run.
RunNewFinish(self) ==
    /\ pc[self] = "returned"
    /\ entry[self] = "cli"
    /\ pc' = [pc EXCEPT ![self] = "exit"]
    /\ out' = [out EXCEPT ![self] =
                 IF result[self] = "ok" /\ ~dryRun[self]
                 THEN [@ EXCEPT !.hint = TRUE, !.cd = projectName[self]]
                 ELSE @]
    /\ UNCHANGED <<fs, faults, runVars, result, it, created, keep>>

\* Another caller of the package: generator.New on a config of its own, with
\* a name the caller has validated, then Generate.
ApiNew(self) ==
    /\ MayStart(self)
    /\ \E n \in ValidNames \cap InputNames(self), t \in ProjectTypes, d \in BOOLEAN :
         /\ cfg' = [cfg EXCEPT ![self] = [ProjectName |-> n, Type |-> t]]
         /\ dryRun' = [dryRun EXCEPT ![self] = d]
    /\ entry' = [entry EXCEPT ![self] = "api"]
    /\ pc' = [pc EXCEPT ![self] = "stat"]
    /\ UNCHANGED <<fs, faults, projectName, interactive, validated, result,
                   out, it, created, keep>>

(* ---------------------- internal/generator: Generate ------------------- *)

\* filepath.Join(g.baseDir, g.config.ProjectName), relative to the base.
ProjectPath(self) == <<NameStr(cfg[self].ProjectName)>>

Dirs(self) == DirectoryStructure(cfg[self].Type)

\* Where a return from Generate leads: back into runNew, or to the end of
\* a direct caller.
Return(self) == IF entry[self] = "cli" THEN "returned" ELSE "exit"

GenReturn(self, err) ==
    /\ result' = [result EXCEPT ![self] = err]
    /\ pc' = [pc EXCEPT ![self] = Return(self)]

\* The mkdir(2) calls of MkdirAll(path) the environment may fail: those of
\* the prefixes that do not exist yet.
MkdirFaults(path) ==
    {0} \cup IF CanFault
             THEN {k \in 1..Len(path) : ~Exists(fs, SubSeq(path, 1, k))}
             ELSE {}

\* The faults of one os.WriteFile.
WriteFaults == {"none"} \cup IF CanFault THEN {"open", "short"} ELSE {}

\* What preview prints under "Directories to be created:", relative to the
\* project directory.
PreviewDirs(c) ==
    {<<DirectoryStructure(c.Type)[i]>> :
        i \in 1..Len(DirectoryStructure(c.Type))}
    \cup {<<"cmd", NameStr(c.ProjectName)>>}

\* What preview prints under "Files to be created:".
PreviewFiles(c) ==
    {<<"README.md">>, <<"Makefile">>, <<".gitignore">>, <<"go.mod">>,
     <<"cmd", NameStr(c.ProjectName), "main.go">>}
    \cup IF c.Type = TypeService THEN {<<"Dockerfile">>} ELSE {}

\* Mutant: the flag is not looked at.
IsDryRun_Ignored(self) == FALSE

\* Generate's test of g.dryRun.
IsDryRun(self) == dryRun[self]

\* Generate up to the first filesystem change: the existence check and, in
\* a dry run, the whole of preview.
GenStat(self) ==
    /\ pc[self] = "stat"
    /\ IF Stat(fs, ProjectPath(self))
       THEN /\ GenReturn(self, "already_exists")
            /\ UNCHANGED out
       ELSE IF IsDryRun(self)
       THEN /\ out' = [out EXCEPT ![self] =
                         [@ EXCEPT !.dirs = PreviewDirs(cfg[self]),
                                   !.files = PreviewFiles(cfg[self])]]
            /\ GenReturn(self, "ok")
       ELSE /\ pc' = [pc EXCEPT ![self] = "mkroot"]
            /\ UNCHANGED <<result, out>>
    /\ UNCHANGED <<fs, faults, runVars, it, created, keep>>

\* One os.MkdirAll of Generate or createDirectories, and the early return on
\* its error.
Mkdir(self, path, next) ==
    \E failAt \in MkdirFaults(path) :
      LET r == MkdirAll(fs, path, failAt)
      IN /\ fs' = r.fs
         /\ faults' = IF failAt = 0 THEN faults ELSE faults + 1
         /\ created' = [created EXCEPT ![self] =
                          @ \cup (DOMAIN r.fs \ DOMAIN fs)
                            \cup IF r.err THEN {} ELSE {path}]
         /\ IF r.err
            THEN GenReturn(self, "mkdir_failed")
            ELSE /\ pc' = [pc EXCEPT ![self] = next]
                 /\ UNCHANGED result

\* The base project directory.
GenMkRoot(self) ==
    /\ pc[self] = "mkroot"
    /\ Mkdir(self, ProjectPath(self),
             IF Len(Dirs(self)) = 0 THEN "cmddir" ELSE "dirs")
    /\ it' = [it EXCEPT ![self] = NoIt]
    /\ UNCHANGED <<runVars, out, keep>>

\* createDirectories: one iteration over DirectoryStructure.
CreateDirectory(self) ==
    /\ pc[self] = "dirs"
    /\ Mkdir(self, ProjectPath(self) \o <<Dirs(self)[it[self].i]>>,
             IF it[self].i = Len(Dirs(self)) THEN "cmddir" ELSE "dirs")
    /\ it' = [it EXCEPT ![self].i = @ + 1]
    /\ UNCHANGED <<runVars, out, keep>>

\* Mutant: createDirectories returns after cmd/<ProjectName>, and the
\* files are generated without .github/workflows having been made.
CreateCmdDir_ThenFiles(self) ==
    /\ pc[self] = "cmddir"
    /\ Mkdir(self,
             ProjectPath(self) \o <<"cmd", NameStr(cfg[self].ProjectName)>>,
             "files")
    /\ it' = [it EXCEPT ![self].pending =
                 {"README.md", "Makefile", ".gitignore", "go.mod"}]
    /\ UNCHANGED <<runVars, out, keep>>

\* createDirectories: cmd/<ProjectName>.
CreateCmdDir(self) ==
    /\ pc[self] = "cmddir"
    /\ Mkdir(self,
             ProjectPath(self) \o <<"cmd", NameStr(cfg[self].ProjectName)>>,
             "wfdir")
    /\ UNCHANGED <<runVars, out, it, keep>>

\* getMakefileTemplate.
MakefileTemplate(projectType) ==
    CASE projectType = TypeLibrary -> "Makefile-library.tmpl"
      [] projectType = TypeService -> "Makefile-service.tmpl"
      [] projectType = TypeCLI -> "Makefile-cli.tmpl"
      [] OTHER -> "Makefile-cli.tmpl"

\* The map generateFiles iterates: file name -> template name.
CoreFiles(projectType) ==
    [f \in {"README.md", "Makefile", ".gitignore", "go.mod"}
            \cup IF projectType = TypeService THEN {"Dockerfile"} ELSE {}
       |-> CASE f = "README.md" -> "README.md.tmpl"
             [] f = "Makefile" -> MakefileTemplate(projectType)
             [] f = ".gitignore" -> "gitignore.tmpl"
             [] f = "go.mod" -> "go.mod.tmpl"
             [] f = "Dockerfile" -> "Dockerfile-service.tmpl"]

\* createDirectories: .github/workflows; then generateFiles builds its map.
CreateWorkflowsDir(self) ==
    /\ pc[self] = "wfdir"
    /\ Mkdir(self, ProjectPath(self) \o <<".github", "workflows">>, "files")
    /\ it' = [it EXCEPT ![self].pending = DOMAIN CoreFiles(cfg[self].Type)]
    /\ UNCHANGED <<runVars, out, keep>>

\* The bytes generateFile writes: the named template, parsed and executed
\* against the config.
Rendered(templateName) == FileEntry(templateName, "rendered")

\* The bytes copyWorkflowFile writes: the embedded file as it is.
Raw(srcPath) == FileEntry(srcPath, "raw")

\* Mutant: the error of os.WriteFile is dropped.
GenerateFile_WriteErrorDropped(f, path, templateName, fault) ==
    IF fault = "template" THEN [err |-> "template_failed", fs |-> f]
    ELSE IF fault = "execute" THEN [err |-> "execute_failed", fs |-> f]
    ELSE LET w == WriteFile(f, path, Rendered(templateName), fault)
         IN [err |-> "", fs |-> w.fs]

\* generateFile(projectPath, fileName, templateName): "" for a nil error.
\* fault "template": GetTemplate fails (not found, or the text does not
\* parse); "execute": tmpl.Execute fails; "open", "short": os.WriteFile.
GenerateFile(f, path, templateName, fault) ==
    IF fault = "template" THEN [err |-> "template_failed", fs |-> f]
    ELSE IF fault = "execute" THEN [err |-> "execute_failed", fs |-> f]
    ELSE LET w == WriteFile(f, path, Rendered(templateName), fault)
         IN [err |-> IF w.err THEN "write_failed" ELSE "", fs |-> w.fs]

\* copyWorkflowFile(projectPath, destPath, srcPath).  fault "read":
\* GetWorkflowFile fails.
CopyWorkflowFile(f, path, srcPath, fault) ==
    IF fault = "read" THEN [err |-> "read_failed", fs |-> f]
    ELSE LET w == WriteFile(f, path, Raw(srcPath), fault)
         IN [err |-> IF w.err THEN "write_failed" ELSE "", fs |-> w.fs]

TemplateFaults == WriteFaults \cup
                  IF CanFault THEN {"template", "execute"} ELSE {}

\* The effect of one file-producing call r on the state, and the early
\* return on its error.
Wrote(self, path, r, fault, next) ==
    /\ fs' = r.fs
    /\ faults' = IF fault = "none" THEN faults ELSE faults + 1
    /\ created' = [created EXCEPT ![self] =
                     @ \cup (DOMAIN r.fs \ DOMAIN fs)
                       \cup IF r.err = "" THEN {path} ELSE {}]
    /\ IF r.err # ""
       THEN GenReturn(self, r.err)
       ELSE /\ pc' = [pc EXCEPT ![self] = next]
            /\ UNCHANGED result

\* generateFiles: one iteration over the map, whose order is not fixed.
GenerateCoreFile(self) ==
    /\ pc[self] = "files"
    /\ \E fileName \in it[self].pending, fault \in TemplateFaults :
         LET path == ProjectPath(self) \o <<fileName>>
             r == GenerateFile(fs, path, CoreFiles(cfg[self].Type)[fileName],
                               fault)
         IN /\ Wrote(self, path, r, fault,
                     IF it[self].pending = {fileName} THEN "main"
                     ELSE "files")
            /\ it' = [it EXCEPT ![self].pending = @ \ {fileName}]
    /\ UNCHANGED <<runVars, out, keep>>

\* generateFiles: main.go in the cmd directory.
GenerateMain(self) ==
    /\ pc[self] = "main"
    /\ \E fault \in TemplateFaults :
         LET path == ProjectPath(self) \o
                     <<"cmd", NameStr(cfg[self].ProjectName), "main.go">>
         IN Wrote(self, path, GenerateFile(fs, path, "main.go.tmpl", fault),
                  fault, "testwf")
    /\ UNCHANGED <<runVars, out, it, keep>>

\* generateWorkflowFiles: the common workflows, a map of one entry.
CopyTestWorkflow(self) ==
    /\ pc[self] = "testwf"
    /\ \E fault \in WriteFaults \cup IF CanFault THEN {"read"} ELSE {} :
         LET path == ProjectPath(self) \o <<".github", "workflows", "test.yml">>
         IN Wrote(self, path,
                  CopyWorkflowFile(fs, path, ".github/workflows/test.yml",
                                   fault),
                  fault, "releasewf")
    /\ UNCHANGED <<runVars, out, it, keep>>

\* Mutant: the library case names the cli workflow.
ReleaseWorkflow_LibraryAsCLI(projectType) ==
    CASE projectType = TypeLibrary -> ".github/workflows/release-cli.yml"
      [] projectType = TypeService -> ".github/workflows/release-service.yml"
      [] projectType = TypeCLI -> ".github/workflows/release-cli.yml"
      [] OTHER -> ".github/workflows/release-cli.yml"

\* generateWorkflowFiles: the release workflow selected by the type.
ReleaseWorkflow(projectType) ==
    CASE projectType = TypeLibrary -> ".github/workflows/release-library.yml"
      [] projectType = TypeService -> ".github/workflows/release-service.yml"
      [] projectType = TypeCLI -> ".github/workflows/release-cli.yml"
      [] OTHER -> ".github/workflows/release-cli.yml"

\* The call that writes release.yml.
WriteReleaseWorkflow(f, path, projectType, fault) ==
    GenerateFile(f, path, ReleaseWorkflow(projectType), fault)

GenerateReleaseWorkflow(self) ==
    /\ pc[self] = "releasewf"
    /\ \E fault \in TemplateFaults :
         LET path == ProjectPath(self) \o
                     <<".github", "workflows", "release.yml">>
         IN Wrote(self, path,
                  WriteReleaseWorkflow(fs, path, cfg[self].Type, fault),
                  fault,
                  IF Len(Dirs(self)) = 0 THEN "success" ELSE "gitkeep")
    /\ it' = [it EXCEPT ![self].i = 1]
    /\ UNCHANGED <<runVars, out, keep>>

\* Mutant: no directory is skipped.
SkipDirs_None == {}

\* createGitkeepFiles: the directories that get no placeholder.
SkipDirs == {"cmd"}

\* What createGitkeepFiles does with the error of a placeholder's WriteFile:
\* "" to go on with the next directory.
GitkeepError(werr) == ""

\* createGitkeepFiles: one iteration over DirectoryStructure.
CreateGitkeep(self) ==
    /\ pc[self] = "gitkeep"
    /\ LET dir == Dirs(self)[it[self].i]
           path == ProjectPath(self) \o <<dir, ".gitkeep">>
           next == IF it[self].i = Len(Dirs(self)) THEN "success"
                   ELSE "gitkeep"
       IN IF dir \in SkipDirs
          THEN /\ pc' = [pc EXCEPT ![self] = next]
               /\ UNCHANGED <<fs, faults, result, created, keep>>
          ELSE \E fault \in WriteFaults :
                 LET w == WriteFile(fs, path, FileEntry("", "literal"), fault)
                 IN /\ fs' = w.fs
                    /\ faults' = IF fault = "none" THEN faults ELSE faults + 1
                    /\ created' = [created EXCEPT ![self] =
                                     @ \cup (DOMAIN w.fs \ DOMAIN fs)]
                    /\ keep' = [keep EXCEPT
                                  ![self].tried = @ \cup {dir},
                                  ![self].failed =
                                      IF w.err THEN @ \cup {dir} ELSE @]
                    /\ IF GitkeepError(w.err) # ""
                       THEN GenReturn(self, GitkeepError(w.err))
                       ELSE /\ pc' = [pc EXCEPT ![self] = next]
                            /\ UNCHANGED result
    /\ it' = [it EXCEPT ![self].i = @ + 1]
    /\ UNCHANGED <<runVars, out>>

\* Generate: generateFiles returned nil; the success line and the return.
GenerateDone(self) ==
    /\ pc[self] = "success"
    /\ out' = [out EXCEPT ![self].success = TRUE]
    /\ GenReturn(self, "ok")
    /\ UNCHANGED <<fs, faults, runVars, it, created, keep>>

(* --------------------------- specification ----------------------------- *)

Next ==
    \E self \in Procs :
      \/ RunNewArgs(self)
      \/ RunNewPrompt(self)
      \/ RunNewDefaults(self)
      \/ RunNewGenerate(self)
      \/ RunNewFinish(self)
      \/ ApiNew(self)
      \/ GenStat(self)
      \/ GenMkRoot(self)
      \/ CreateDirectory(self)
      \/ CreateCmdDir(self)
      \/ CreateWorkflowsDir(self)
      \/ GenerateCoreFile(self)
      \/ GenerateMain(self)
      \/ CopyTestWorkflow(self)
      \/ GenerateReleaseWorkflow(self)
      \/ CreateGitkeep(self)
      \/ GenerateDone(self)

Spec == Init /\ [][Next]_vars

(* ---------------- concurrent invocations of Generate ------------------- *)

\* Two Generators made by New for the same base directory and the same
\* project name, both in real mode, whose Generate calls run concurrently:
\* nothing orders the steps of one against the steps of the other.  Each
\* os.MkdirAll and each os.WriteFile is one step.
Other(self) == CHOOSE q \in Procs : q # self

RaceNames(self) ==
    IF pc[Other(self)] = "idle" THEN ValidNames
    ELSE {cfg[Other(self)].ProjectName}

RaceNew(self) ==
    /\ pc[self] = "idle"
    /\ \E n \in RaceNames(self), t \in ProjectTypes :
         cfg' = [cfg EXCEPT ![self] = [ProjectName |-> n, Type |-> t]]
    /\ entry' = [entry EXCEPT ![self] = "api"]
    /\ pc' = [pc EXCEPT ![self] = "stat"]
    /\ UNCHANGED <<fs, faults, projectName, interactive, dryRun, validated,
                   result, out, it, created, keep>>

\* The base directory is empty, and the environment fails no call of these
\* behaviours: what happens is the doing of the two invocations alone.
RaceInit ==
    /\ fs = <<>>
    /\ faults = MaxFaults
    /\ pc = [p \in Procs |-> "idle"]
    /\ entry = [p \in Procs |-> "none"]
    /\ projectName = [p \in Procs |-> <<>>]
    /\ interactive = [p \in Procs |-> FALSE]
    /\ dryRun = [p \in Procs |-> FALSE]
    /\ cfg = [p \in Procs |-> [ProjectName |-> <<>>, Type |-> ""]]
    /\ validated = [p \in Procs |-> 0]
    /\ result = [p \in Procs |-> "none"]
    /\ out = [p \in Procs |-> NoOut]
    /\ it = [p \in Procs |-> NoIt]
    /\ created = [p \in Procs |-> {}]
    /\ keep = [p \in Procs |-> NoKeep]

RaceNext ==
    \E self \in Procs :
      \/ RaceNew(self)
      \/ GenStat(self)
      \/ GenMkRoot(self)
      \/ CreateDirectory(self)
      \/ CreateCmdDir(self)
      \/ CreateWorkflowsDir(self)
      \/ GenerateCoreFile(self)
      \/ GenerateMain(self)
      \/ CopyTestWorkflow(self)
      \/ GenerateReleaseWorkflow(self)
      \/ CreateGitkeep(self)
      \/ GenerateDone(self)

SpecRace == RaceInit /\ [][RaceNext]_vars

(* ------------------------------- claims -------------------------------- *)

\* The positions inside Generate.
InGenerate(p) ==
    pc[p] \in {"stat", "mkroot", "dirs", "cmddir", "wfdir", "files", "main",
               "testwf", "releasewf", "gitkeep", "success"}

\* Generate has returned.
Returned(p) == pc[p] \in {"returned", "exit"} /\ entry[p] # "none"

\* Generate has returned nil from a real run.
RealSuccess(p) == Returned(p) /\ result[p] = "ok" /\ ~dryRun[p]

\* The errors Generate returns after the existence check.
GenerateErrors ==
    {"mkdir_failed", "template_failed", "execute_failed", "write_failed",
     "read_failed"}

\* C1: while an invocation in dry-run mode is inside Generate, no step
\* changes any entry under the base directory, whether the call ends in
\* success or in the already-exists error.
C1_DryRunLeavesFilesystem ==
    [][\A p \in Procs : (dryRun[p] /\ InGenerate(p)) => fs' = fs]_vars

\* A dry run has printed its plan and returned nil.
C1_Witness ==
    \E p \in Procs :
      /\ Returned(p) /\ dryRun[p] /\ result[p] = "ok"
      /\ out[p].dirs # {} /\ out[p].files # {}

\* C2: whenever Generate is called with an entry at base directory +
\* project name, the call returns the already-exists error and writes
\* nothing, in dry-run and in real mode alike.
C2_ExistingEntryRejected ==
    [][\A p \in Procs :
         (pc[p] = "stat" /\ Exists(fs, ProjectPath(p)) /\ pc'[p] # "stat")
            => (result'[p] = "already_exists" /\ fs' = fs)]_vars

\* The paths an invocation has created below its project directory,
\* relative to that directory.
CreatedUnderRoot(p) ==
    {SubSeq(path, 2, Len(path)) : path \in created[p] \ {ProjectPath(p)}}

\* C3: the paths a successful real Generate creates under the project root
\* (here in a run in which nothing failed) are exactly the directories and
\* files a dry run of the same configuration reports.
C3_PreviewEqualsCreated ==
    \A p \in Procs :
      (RealSuccess(p) /\ faults = 0) =>
        CreatedUnderRoot(p) = PreviewDirs(cfg[p]) \cup PreviewFiles(cfg[p])

\* The characters the specification reserves.
ReservedChars == {" ", "/", "\\", ":", "*", "?", "\"", "<", ">", "|"}

\* The name the invocation's latest call of ValidateProjectName was given.
ValidatedName(p) ==
    IF cfg[p].ProjectName # <<>> THEN cfg[p].ProjectName ELSE projectName[p]

NameRejected(p) == result[p] \in {"name_empty", "name_invalid_chars"}

\* C4: a validated name is rejected exactly when it is empty or holds a
\* reserved character; every other name is accepted.
C4_ValidateProjectName ==
    \A p \in Procs :
      validated[p] >= 1 =>
        (NameRejected(p) <=>
           \/ ValidatedName(p) = <<>>
           \/ \E i \in 1..Len(ValidatedName(p)) :
                ValidatedName(p)[i] \in ReservedChars)

\* A name whose second character is the last of the reserved ones has been
\* rejected, and another invocation's name has been accepted.
C4_Witness ==
    /\ \E p \in Procs :
         /\ NameRejected(p) /\ Len(projectName[p]) = 2
         /\ projectName[p][1] = "a" /\ projectName[p][2] = "|"
         /\ validated[p] = 1

\* C5: for every project type DirectoryStructure yields a non-empty list
\* without duplicates, and for a type other than cli, library and service
\* the list it yields for cli.
C5_DirectoryStructureTotal ==
    \A p \in Procs :
      LET d == Dirs(p)
      IN /\ Len(d) > 0
         /\ \A i, j \in 1..Len(d) : d[i] = d[j] => i = j
         /\ cfg[p].Type \notin {TypeCLI, TypeLibrary, TypeService}
              => d = DirectoryStructure(TypeCLI)

\* A real run of a type that is none of the three has created every
\* directory of its list.
C5_Witness ==
    \E p \in Procs :
      /\ RealSuccess(p)
      /\ cfg[p].Type = "daemon"
      /\ \A i \in 1..Len(Dirs(p)) :
           IsDir(fs, ProjectPath(p) \o <<Dirs(p)[i]>>)

\* The Dockerfiles anywhere below an invocation's project directory.
Dockerfiles(p) ==
    {path \in DOMAIN fs :
       /\ Len(path) >= 2
       /\ path[1] = ProjectPath(p)[1]
       /\ path[Len(path)] = "Dockerfile"}

\* The embedded resource a file of the project was produced from.
SourceOf(p, rel) == fs[ProjectPath(p) \o rel].src

\* C6: after a successful real Generate a service project holds exactly one
\* Dockerfile and the service release workflow; a cli or library project
\* holds no Dockerfile and its own release workflow; the Makefile follows
\* the same mapping of the type, cli being the default.
C6_TypeSpecificFiles ==
    \A p \in Procs :
      RealSuccess(p) =>
        LET t == cfg[p].Type
            release == SourceOf(p, <<".github", "workflows", "release.yml">>)
            makefile == SourceOf(p, <<"Makefile">>)
        IN /\ t = "service" =>
                /\ Dockerfiles(p) = {ProjectPath(p) \o <<"Dockerfile">>}
                /\ fs[ProjectPath(p) \o <<"Dockerfile">>].kind = "file"
                /\ release = ".github/workflows/release-service.yml"
                /\ makefile = "Makefile-service.tmpl"
           /\ t = "library" =>
                /\ Dockerfiles(p) = {}
                /\ release = ".github/workflows/release-library.yml"
                /\ makefile = "Makefile-library.tmpl"
           /\ t \notin {"service", "library"} =>
                /\ Dockerfiles(p) = {}
                /\ release = ".github/workflows/release-cli.yml"
                /\ makefile = "Makefile-cli.tmpl"

\* A real run of a service project has succeeded and left its Dockerfile.
C6_Witness ==
    \E p \in Procs :
      /\ RealSuccess(p)
      /\ cfg[p].Type = "service"
      /\ Dockerfiles(p) # {}

\* The positions of Generate whose errors are returned.
FatalSteps ==
    {"mkroot", "dirs", "cmddir", "wfdir", "files", "main", "testwf",
     "releasewf"}

\* C7: in a real run a failure in directory creation, in a core file, in
\* the entry point or in a workflow file ends Generate in that very step
\* with the error; from then on the filesystem does not change, so no later
\* operation runs and nothing made before is removed; no success line is
\* printed.
C7_FailFastNoRollback ==
    [][\A p \in Procs :
         /\ (pc[p] \in FatalSteps /\ faults' > faults)
              => /\ result'[p] \in GenerateErrors
                 /\ pc'[p] = Return(p)
                 /\ created[p] \subseteq created'[p]
                 /\ created'[p] \subseteq DOMAIN fs'
                 /\ ~out'[p].success
         /\ result[p] \in GenerateErrors
              => /\ fs' = fs
                 /\ result'[p] = result[p]
                 /\ ~out'[p].success]_vars

\* A run failed writing a file after it had made its directories and at
\* least one file, all of which are still there.
C7_Witness ==
    \E p \in Procs :
      /\ Returned(p)
      /\ result[p] = "write_failed"
      /\ IsDir(fs, ProjectPath(p) \o <<".github", "workflows">>)
      /\ \E path \in created[p] : fs[path].kind = "file"
      /\ created[p] \subseteq DOMAIN fs

\* C8: a real Generate that has reached the placeholder step returns nil,
\* has tried a placeholder in every directory of DirectoryStructure but cmd,
\* and has left one in each of them whose write did not fail; cmd holds
\* none.
C8_PlaceholdersBestEffort ==
    \A p \in Procs :
      (Returned(p) /\ keep[p].tried # {}) =>
        /\ result[p] = "ok"
        /\ out[p].success
        /\ keep[p].tried = Range(Dirs(p)) \ {"cmd"}
        /\ \A d \in keep[p].tried \ keep[p].failed :
             /\ ProjectPath(p) \o <<d, ".gitkeep">> \in DOMAIN fs
             /\ fs[ProjectPath(p) \o <<d, ".gitkeep">>] =
                  FileEntry("", "literal")
        /\ ProjectPath(p) \o <<"cmd", ".gitkeep">> \notin DOMAIN fs

\* A run has returned nil although the write of a placeholder failed, and
\* the placeholders after the failed one are there.
C8_Witness ==
    \E p \in Procs :
      /\ RealSuccess(p)
      /\ keep[p].failed = {"internal"}
      /\ ProjectPath(p) \o <<"examples", ".gitkeep">> \in DOMAIN fs

\* C9: both workflow files of a successful real Generate (here of a run in
\* which nothing failed) hold the bytes of their embedded file as they are:
\* neither went through the parsing and execution of a template.
C9_WorkflowsCopiedRaw ==
    \A p \in Procs :
      (RealSuccess(p) /\ faults = 0) =>
        /\ fs[ProjectPath(p) \o <<".github", "workflows", "test.yml">>].via
             = "raw"
        /\ fs[ProjectPath(p) \o <<".github", "workflows", "release.yml">>].via
             = "raw"

\* The command has called Generate.
ReachedGenerate(p) ==
    /\ entry[p] = "cli"
    /\ \/ InGenerate(p)
       \/ pc[p] = "returned"
       \/ pc[p] = "exit" /\ result[p] \in GenerateErrors \cup
                                          {"ok", "already_exists"}

\* C10: on every path of the command that reaches Generate the name has
\* been validated exactly once.
C10_ValidatedExactlyOnce ==
    \A p \in Procs : ReachedGenerate(p) => validated[p] = 1

\* C10 as amended: the name in the config is valid and has been validated
\* once, or twice when it was given as argument together with the
\* interactive flag; the count no longer changes once Generate is called.
C10_ValidatedBeforeGenerate ==
    \A p \in Procs :
      ReachedGenerate(p) =>
        /\ ValidatedName(p) = cfg[p].ProjectName
        /\ ValidatedName(p) # <<>>
        /\ \A i \in 1..Len(ValidatedName(p)) :
             ValidatedName(p)[i] \notin ReservedChars
        /\ validated[p] =
             IF projectName[p] # <<>> /\ interactive[p] THEN 2 ELSE 1

\* An invocation with a name argument and the interactive flag has run
\* Generate to its end after two validations of the name, and so has, after
\* one validation, an invocation whose name was typed into the form.
C10_Witness ==
    /\ \E p \in Procs :
         /\ ReachedGenerate(p) /\ pc[p] = "exit" /\ result[p] = "ok"
         /\ projectName[p] # <<>> /\ interactive[p]
         /\ validated[p] = 2
    /\ \E p \in Procs :
         /\ ReachedGenerate(p) /\ pc[p] = "exit"
         /\ projectName[p] = <<>> /\ cfg[p].ProjectName # <<>>
         /\ validated[p] = 1

\* The order the claim gives the core files.
CoreOrder == <<"README.md", "Makefile", ".gitignore", "go.mod", "Dockerfile">>

\* The place of a core file among the stages of a run: its place in
\* CoreOrder when the core files are taken to be ordered, the first place
\* for all of them otherwise.
CorePlace(fileName, ordered) ==
    IF ordered
    THEN CHOOSE i \in 1..Len(CoreOrder) : CoreOrder[i] = fileName
    ELSE 1

\* The place of a policy directory in DirectoryStructure.
DirPlace(p, dir) == CHOOSE i \in 1..Len(Dirs(p)) : Dirs(p)[i] = dir

\* The stage at which a real run of p makes the path rel (relative to the
\* project directory): the root, the policy directories in order,
\* cmd/<name>, .github/workflows, the core files, the entry point, the test
\* workflow, the release workflow, the placeholders in order.
Stage(p, rel, ordered) ==
    LET n == Len(Dirs(p))
        name == NameStr(cfg[p].ProjectName)
    IN CASE rel = <<>> -> 0
         [] Len(rel) = 1 /\ rel[1] \in Range(Dirs(p)) -> DirPlace(p, rel[1])
         [] rel = <<"cmd", name>> -> n + 1
         [] rel \in {<<".github">>, <<".github", "workflows">>} -> n + 2
         [] Len(rel) = 1 /\ rel[1] \in Range(CoreOrder) ->
              n + 2 + CorePlace(rel[1], ordered)
         [] rel = <<"cmd", name, "main.go">> -> n + 8
         [] rel = <<".github", "workflows", "test.yml">> -> n + 9
         [] rel = <<".github", "workflows", "release.yml">> -> n + 10
         [] Len(rel) = 2 /\ rel[2] = ".gitkeep" ->
              n + 10 + DirPlace(p, rel[1])

\* Everything a real run of p is to make, relative to the project directory.
PlanDirs(p) ==
    {<<>>, <<"cmd", NameStr(cfg[p].ProjectName)>>, <<".github">>,
     <<".github", "workflows">>}
    \cup {<<d>> : d \in Range(Dirs(p))}

PlanFiles(p) ==
    {<<f>> : f \in DOMAIN CoreFiles(cfg[p].Type)}
    \cup {<<"cmd", NameStr(cfg[p].ProjectName), "main.go">>,
          <<".github", "workflows", "test.yml">>,
          <<".github", "workflows", "release.yml">>}

Placeholders(p) == {<<d, ".gitkeep">> : d \in Range(Dirs(p)) \ {"cmd"}}

Rel(path) == SubSeq(path, 2, Len(path))

\* Every step of a real run respects the stages: when it makes a path,
\* every directory and file of an earlier stage has been made by the run,
\* every placeholder of an earlier stage has been tried, and, when the path
\* is a file, every directory of the plan is there.
StagesRespected(ordered) ==
    \A p \in Procs :
      \A path \in created'[p] \ created[p] :
        /\ Rel(path) \in PlanDirs(p) \cup PlanFiles(p) \cup Placeholders(p)
        /\ \A rel \in PlanDirs(p) \cup PlanFiles(p) :
             Stage(p, rel, ordered) < Stage(p, Rel(path), ordered)
               => ProjectPath(p) \o rel \in created[p]
        /\ \A rel \in Placeholders(p) :
             Stage(p, rel, ordered) < Stage(p, Rel(path), ordered)
               => rel[1] \in keep[p].tried
        /\ fs'[path].kind = "file" =>
             \A rel \in PlanDirs(p) : IsDir(fs, ProjectPath(p) \o rel)

\* C11: a real Generate makes its paths in one fixed order, the core files
\* in the order README, Makefile, ignore file, module descriptor,
\* Dockerfile, and writes no file before every directory is made.
C11_FixedOrder == [][StagesRespected(TRUE)]_vars

\* C11 as amended: the same order, except that the core files are written
\* in any order among themselves, after .github/workflows and before the
\* entry point.
C11_OrderUpToCoreFiles == [][StagesRespected(FALSE)]_vars

\* A real run has written the Makefile and has yet to write the README.
C11_Witness ==
    \E p \in Procs :
      /\ pc[p] = "files"
      /\ ProjectPath(p) \o <<"Makefile">> \in created[p]
      /\ ProjectPath(p) \o <<"README.md">> \notin created[p]
      /\ "README.md" \in it[p].pending

\* C12: an invocation of the new command that has ended printed the
\* next-steps hint exactly when its generation was real and succeeded, and
\* the cd step of the hint names the project directory that was created
\* (the ProjectName of the config), also when the name was typed into the
\* form.
C12_HintNamesProject ==
    \A p \in Procs :
      (entry[p] = "cli" /\ pc[p] = "exit") =>
        /\ out[p].hint <=> (result[p] = "ok" /\ ~dryRun[p])
        /\ out[p].hint => out[p].cd = cfg[p].ProjectName

\* The files p has written that exist.
FilesOf(p) == {path \in created[p] \cap DOMAIN fs : fs[path].kind = "file"}

\* C13: the existence check and the creation of the root are not one step.
\* Of two concurrent real invocations for the same directory and name,
\* one that is past the check is not stopped by what the other makes:
\* no step of it returns already-exists, os.MkdirAll of a directory the
\* other has made is no error and a write over a file of the other is no
\* error, so that it returns nil.
C13_CheckThenAct ==
    \A p \in Procs :
      /\ (InGenerate(p) /\ pc[p] # "stat") => result[p] = "none"
      /\ pc[p] = "exit" =>
           /\ result[p] \in {"ok", "already_exists"}
           /\ result[p] = "already_exists" => created[p] = {}

\* Both invocations were past the check before either made the root (the
\* later check would have found it otherwise), both have returned nil, and
\* both have written the same files of the one tree.
C13_Witness ==
    /\ \A p \in Procs : pc[p] = "exit" /\ result[p] = "ok" /\ ~dryRun[p]
    /\ cfg["p1"].ProjectName = cfg["p2"].ProjectName
    /\ ProjectPath("p1") \o <<"README.md">> \in FilesOf("p1") \cap FilesOf("p2")
    /\ IsDir(fs, ProjectPath("p1"))

====
